---- MODULE Spec2Model ----
(***************************************************************************)
(* Hybrid retrieval and reranking of rag_agent/vector_search:              *)
(* HybridRetriever._retrieve (hybrid_retriever.py) and Reranker.rerank     *)
(* (reranker.py).                                                          *)
(*                                                                         *)
(* Candidates (NodeWithScore) are mutable objects: the heap maps an object *)
(* reference to its fields, and every list of the program is a sequence of *)
(* references, so that two lists can hold the same object.  A score is     *)
(* None (the empty tuple) or a number v (the tuple <<v>>).  Scores and     *)
(* weights range over small non-negative integers, on which the float      *)
(* product of the code is exact.                                           *)
(***************************************************************************)
EXTENDS Integers, Sequences, FiniteSets, TLC

\* ---------------------------------------------------------------- bounds
\* longest list a ranker returns
MaxLen == 2
\* longest list a caller hands to rerank directly
MaxNodes == 3
\* largest top_k a caller hands to rerank directly
MaxTopK == 2
\* longest retrieved_docs and relevant_doc_ids given to evaluate_retrieval
MaxDocs == 4
MaxRelevant == 2

\* top_k=5 is what _retrieve passes to rerank
RetrieveTopK == 5

\* ---------------------------------------------------------------- values
\* the candidate objects there are
Refs == {1, 2, 3}
None == <<>>
Num(v) == <<v>>
\* vector_weight and bm25_weight: any non-negative numbers
Weights == {0, 2}
\* what predict can give for one pair
PredValues == {None, Num(0), Num(1), Num(2)}
TopKs == (0 - 1)..MaxTopK
Queries == {"q"}

\* node_id of the object r: objects 1 and 2 are two candidates with one id,
\* object 3 has an id of its own
IdOf(r) == (r + 1) \div 2
TextOf(r) == <<"text", r>>
MetadataOf(r) == <<"metadata", r>>
\* the scores a ranker can give the object r
RankerScores(r) == {None, Num(r)}

BoundedSeq(S, n) == UNION {[1..k -> S] : k \in 0..n}
Min(a, b) == IF a < b THEN a ELSE b
Max(a, b) == IF a > b THEN a ELSE b

VARIABLES
    heap,            \* object reference -> [node_id, text, metadata, score]
    rankerScore,     \* object reference -> the score its ranker gave it
    vector_weight, bm25_weight,   \* self.vector_weight, self.bm25_weight
    query,           \* the query of the call
    pc,              \* position in _retrieve
    vector_results, bm25_results, combined_nodes,   \* locals of _retrieve
    retrieve_out,    \* how _retrieve ended: [status, value, error]
    rr_pc,           \* position in rerank
    nodes, top_k,    \* arguments of rerank
    pairs, scores,   \* locals of rerank
    rerank_out,      \* how rerank ended: [status, value, error]
    calls,           \* number of calls of each collaborator
    faults,          \* the collaborators whose call has raised
    other,           \* the locals of another call of _retrieve, not running now
    ev,              \* evaluate_retrieval: its arguments and its result
    tool             \* CustomQueryEngineTool.call: its position and its output

retrieveVars == <<vector_weight, bm25_weight, pc, vector_results, bm25_results,
                  combined_nodes, retrieve_out>>
rerankVars == <<rr_pc, nodes, top_k, pairs, scores, rerank_out>>
vars == <<heap, rankerScore, query, retrieveVars, rerankVars, calls, faults,
          other, ev, tool>>

\* no other call of _retrieve, no call of evaluate_retrieval
NoCall == [state |-> "none"]
NoEval == [pc |-> "none"]
\* no call of CustomQueryEngineTool.call
NoTool == [pc |-> "none"]

NoOutcome == [status |-> "none", value |-> <<>>, error |-> "none"]
Returned(v) == [status |-> "returned", value |-> v, error |-> "none"]
Raised(e) == [status |-> "raised", value |-> <<>>, error |-> e]

\* ------------------------------------------------ pure parts of _retrieve

\* a missing score left missing by the weighting
WeightedScore_KeepsNone(s, w) == IF s # None THEN Num(s[1] * w) ELSE None

\* node.score = (node.score * weight) if node.score is not None else 0.0
WeightedScore(s, w) == IF s # None THEN Num(s[1] * w) ELSE Num(0)

\* a weighting loop that also empties the metadata of what it touches
RECURSIVE ApplyWeight_ClearsMetadata(_, _, _)
ApplyWeight_ClearsMetadata(h, results, w) ==
    IF results = <<>> THEN h
    ELSE ApplyWeight_ClearsMetadata(
             [h EXCEPT ![Head(results)].score = WeightedScore(@, w),
                       ![Head(results)].metadata = <<>>],
             Tail(results), w)

\* for node in results: node.score = ...   (in place, once per occurrence)
RECURSIVE ApplyWeight(_, _, _)
ApplyWeight(h, results, w) ==
    IF results = <<>> THEN h
    ELSE ApplyWeight([h EXCEPT ![Head(results)].score = WeightedScore(@, w)],
                     Tail(results), w)

\* a list append in place of the dict: no key is ever replaced
DictSet_NoDedup(d, k, v) == Append(d, <<k, v>>)

\* d[k] = v on a dict kept as the sequence of its <<key, value>> items in
\* insertion order: a repeated key keeps its position and takes the new value
DictSet(d, k, v) ==
    IF \E i \in 1..Len(d) : d[i][1] = k
    THEN [i \in 1..Len(d) |-> IF d[i][1] = k THEN <<k, v>> ELSE d[i]]
    ELSE Append(d, <<k, v>>)

\* a dedup that keeps, of two candidates with one id, the higher-scored one
RECURSIVE UniqueResults_KeepsBest(_, _, _)
UniqueResults_KeepsBest(h, d, results) ==
    IF results = <<>> THEN d
    ELSE LET r == Head(results)
             old == {i \in 1..Len(d) : d[i][1] = h[r].node_id}
         IN  UniqueResults_KeepsBest(
                 h,
                 IF old # {} /\ h[d[CHOOSE i \in old : TRUE][2]].score[1] > h[r].score[1]
                 THEN d
                 ELSE DictSet(d, h[r].node_id, r),
                 Tail(results))

\* {node.node_id: node for node in combined_results}
RECURSIVE UniqueResults(_, _, _)
UniqueResults(h, d, results) ==
    IF results = <<>> THEN d
    ELSE UniqueResults(h, DictSet(d, h[Head(results)].node_id, Head(results)),
                       Tail(results))

\* a fused list in the order of the last occurrence of each id: a repeated
\* id moves to the position of its latest candidate
CombinedNodes_LastSeenOrder(h, vr, br) ==
    LET cat == vr \o br
        keep == {i \in 1..Len(cat) :
                    \A j \in (i + 1)..Len(cat) : h[cat[j]].node_id # h[cat[i]].node_id}
    IN  [k \in 1..Cardinality(keep) |->
            cat[CHOOSE i \in keep : Cardinality({j \in keep : j <= i}) = k]]

\* list(unique_results.values())
CombinedNodes(h, vr, br) ==
    LET d == UniqueResults(h, <<>>, vr \o br)
    IN  [i \in 1..Len(d) |-> d[i][2]]

\* --------------------------------------------------- pure parts of rerank

\* pairs = [[query, node.text] for node in nodes]
Pairs(h, q, ns) == [i \in 1..Len(ns) |-> <<q, h[ns[i]].text>>]

\* a loop that adds the scorer's value to the score the node already has
RECURSIVE AssignLoop_Accumulates(_, _, _)
AssignLoop_Accumulates(h, ns, sc) ==
    IF ns = <<>> \/ sc = <<>> THEN <<h, TRUE>>
    ELSE IF Head(sc) = None THEN <<h, FALSE>>
    ELSE AssignLoop_Accumulates(
             [h EXCEPT ![Head(ns)].score =
                  IF @ = None THEN Head(sc) ELSE Num(@[1] + Head(sc)[1])],
             Tail(ns), Tail(sc))

\* for node, score in zip(nodes, scores): node.score = float(score)
\* float(None) raises TypeError: the loop stops there, earlier nodes written.
\* The result is <<heap, ok>>.
RECURSIVE AssignLoop(_, _, _)
AssignLoop(h, ns, sc) ==
    IF ns = <<>> \/ sc = <<>> THEN <<h, TRUE>>
    ELSE IF Head(sc) = None THEN <<h, FALSE>>
    ELSE AssignLoop([h EXCEPT ![Head(ns)].score = Head(sc)], Tail(ns), Tail(sc))

\* key=lambda x: x.score if x.score is not None else 0.0
SortKey(h, r) == IF h[r].score # None THEN h[r].score[1] ELSE 0

\* an insertion that puts r in front of the elements with its own key
RECURSIVE InsertDesc_BeforeEqual(_, _, _)
InsertDesc_BeforeEqual(h, s, r) ==
    IF s = <<>> THEN <<r>>
    ELSE IF SortKey(h, Head(s)) > SortKey(h, r)
         THEN <<Head(s)>> \o InsertDesc_BeforeEqual(h, Tail(s), r)
         ELSE <<r>> \o s

\* one insertion of the stable descending sort: r goes behind every element
\* whose key is at least its own
RECURSIVE InsertDesc(_, _, _)
InsertDesc(h, s, r) ==
    IF s = <<>> THEN <<r>>
    ELSE IF SortKey(h, Head(s)) >= SortKey(h, r)
         THEN <<Head(s)>> \o InsertDesc(h, Tail(s), r)
         ELSE <<r>> \o s

\* the sort left out: the list in the order it came
SortedDesc_InputOrder(h, ns) == ns

\* sorted(nodes, key=..., reverse=True): stable, highest key first
RECURSIVE SortedDesc(_, _)
SortedDesc(h, ns) ==
    IF ns = <<>> THEN <<>>
    ELSE InsertDesc(h, SortedDesc(h, SubSeq(ns, 1, Len(ns) - 1)), ns[Len(ns)])

\* the slice left out: the whole list
SliceTo_All(s, k) == s

\* s[:k] of Python: a negative k counts from the end
SliceTo(s, k) ==
    LET stop == IF k < 0 THEN Max(Len(s) + k, 0) ELSE Min(k, Len(s))
    IN  SubSeq(s, 1, stop)

\* sorted(...)[:top_k]
Reranked(h, ns, k) == SliceTo(SortedDesc(h, ns), k)

\* ------------------------------------------------------------------ Init

InitHeap ==
    /\ rankerScore \in {f \in [Refs -> {None} \cup {Num(r) : r \in Refs}] :
                            \A r \in Refs : f[r] \in RankerScores(r)}
    /\ heap = [r \in Refs |-> [node_id |-> IdOf(r), text |-> TextOf(r),
                               metadata |-> MetadataOf(r),
                               score |-> rankerScore[r]]]

InitRerank ==
    /\ rr_pc = "idle"
    /\ nodes = <<>>
    /\ top_k = 0
    /\ pairs = <<>>
    /\ scores = <<>>
    /\ rerank_out = NoOutcome

\* a HybridRetriever has been constructed and _retrieve(query) is called
Init ==
    /\ InitHeap
    /\ vector_weight \in Weights
    /\ bm25_weight \in Weights
    /\ query \in Queries
    /\ pc = "vector"
    /\ vector_results = <<>>
    /\ bm25_results = <<>>
    /\ combined_nodes = <<>>
    /\ retrieve_out = NoOutcome
    /\ InitRerank
    /\ calls = [vector |-> 0, bm25 |-> 0, rerank |-> 0, predict |-> 0]
    /\ faults = {}
    /\ other = NoCall
    /\ ev = NoEval
    /\ tool = NoTool

\* ------------------------------------------------------ steps of _retrieve

\* the dense results weighted as soon as they arrive, the sparse call pending
VectorReturns_WeightsAtOnce ==
    /\ pc = "vector"
    /\ \E r \in BoundedSeq(Refs, MaxLen) :
           /\ vector_results' = r
           /\ heap' = ApplyWeight(heap, r, vector_weight)
    /\ pc' = "bm25"
    /\ calls' = [calls EXCEPT !.vector = @ + 1]
    /\ UNCHANGED <<rankerScore, query, vector_weight, bm25_weight,
                   bm25_results, combined_nodes, retrieve_out, rerankVars, faults,
                   other, ev, tool>>

\* vector_results = self.vector_retriever.retrieve(query, **kwargs)
VectorReturns ==
    /\ pc = "vector"
    /\ \E r \in BoundedSeq(Refs, MaxLen) : vector_results' = r
    /\ pc' = "bm25"
    /\ calls' = [calls EXCEPT !.vector = @ + 1]
    /\ UNCHANGED <<heap, rankerScore, query, vector_weight, bm25_weight,
                   bm25_results, combined_nodes, retrieve_out, rerankVars, faults,
                   other, ev, tool>>

\* ... or the call raises, and nothing in _retrieve catches it
VectorRaises ==
    /\ pc = "vector"
    /\ pc' = "done"
    /\ retrieve_out' = Raised("VectorRetrieverError")
    /\ calls' = [calls EXCEPT !.vector = @ + 1]
    /\ faults' = faults \cup {"vector"}
    /\ UNCHANGED <<heap, rankerScore, query, vector_weight, bm25_weight,
                   vector_results, bm25_results, combined_nodes, rerankVars,
                   other, ev, tool>>

\* a failure of the sparse ranker taken as no results, the dense ones kept
Bm25Raises_Fallback ==
    /\ pc = "bm25"
    /\ bm25_results' = <<>>
    /\ pc' = "weight_vector"
    /\ calls' = [calls EXCEPT !.bm25 = @ + 1]
    /\ faults' = faults \cup {"bm25"}
    /\ UNCHANGED <<heap, rankerScore, query, vector_weight, bm25_weight,
                   vector_results, combined_nodes, retrieve_out, rerankVars,
                   other, ev, tool>>

\* bm25_results = self.bm25_retriever.retrieve(query, **kwargs)
Bm25Returns ==
    /\ pc = "bm25"
    /\ \E r \in BoundedSeq(Refs, MaxLen) : bm25_results' = r
    /\ pc' = "weight_vector"
    /\ calls' = [calls EXCEPT !.bm25 = @ + 1]
    /\ UNCHANGED <<heap, rankerScore, query, vector_weight, bm25_weight,
                   vector_results, combined_nodes, retrieve_out, rerankVars, faults,
                   other, ev, tool>>

Bm25Raises ==
    /\ pc = "bm25"
    /\ pc' = "done"
    /\ retrieve_out' = Raised("Bm25RetrieverError")
    /\ calls' = [calls EXCEPT !.bm25 = @ + 1]
    /\ faults' = faults \cup {"bm25"}
    /\ UNCHANGED <<heap, rankerScore, query, vector_weight, bm25_weight,
                   vector_results, bm25_results, combined_nodes, rerankVars,
                   other, ev, tool>>

\* for node in vector_results: node.score = ... * self.vector_weight
WeightVector ==
    /\ pc = "weight_vector"
    /\ heap' = ApplyWeight(heap, vector_results, vector_weight)
    /\ pc' = "weight_bm25"
    /\ UNCHANGED <<rankerScore, query, vector_weight, bm25_weight, vector_results,
                   bm25_results, combined_nodes, retrieve_out, rerankVars, calls, faults,
                   other, ev, tool>>

\* a sparse weighting that starts from the score the ranker gave, whatever
\* the dense loop wrote on the object
WeightBm25_FromRankerScore ==
    /\ pc = "weight_bm25"
    /\ heap' = ApplyWeight(
                   [r \in DOMAIN heap |->
                       IF \E i \in DOMAIN bm25_results : bm25_results[i] = r
                       THEN [heap[r] EXCEPT !.score = rankerScore[r]]
                       ELSE heap[r]],
                   bm25_results, bm25_weight)
    /\ pc' = "combine"
    /\ UNCHANGED <<rankerScore, query, vector_weight, bm25_weight, vector_results,
                   bm25_results, combined_nodes, retrieve_out, rerankVars, calls, faults,
                   other, ev, tool>>

\* for node in bm25_results: node.score = ... * self.bm25_weight
WeightBm25 ==
    /\ pc = "weight_bm25"
    /\ heap' = ApplyWeight(heap, bm25_results, bm25_weight)
    /\ pc' = "combine"
    /\ UNCHANGED <<rankerScore, query, vector_weight, bm25_weight, vector_results,
                   bm25_results, combined_nodes, retrieve_out, rerankVars, calls, faults,
                   other, ev, tool>>

\* combined_nodes = list({node.node_id: node for ...}.values()), then
\* self.reranker.rerank(query, combined_nodes, top_k=5) is entered
Combine ==
    /\ pc = "combine"
    /\ combined_nodes' = CombinedNodes(heap, vector_results, bm25_results)
    /\ pc' = "rerank"
    /\ rr_pc' = "check"
    /\ nodes' = combined_nodes'
    /\ top_k' = RetrieveTopK
    /\ calls' = [calls EXCEPT !.rerank = @ + 1]
    /\ UNCHANGED <<heap, rankerScore, query, vector_weight, bm25_weight,
                   vector_results, bm25_results, retrieve_out, pairs, scores,
                   rerank_out, faults, other, ev, tool>>

\* the reranked list filtered once more: candidates scored 0 are left out
RetrieveReturns_DropsZero ==
    /\ pc = "rerank"
    /\ rr_pc = "done"
    /\ rerank_out.status = "returned"
    /\ retrieve_out' = Returned(SelectSeq(rerank_out.value,
                                          LAMBDA r : heap[r].score # Num(0)))
    /\ pc' = "done"
    /\ UNCHANGED <<heap, rankerScore, query, vector_weight, bm25_weight,
                   vector_results, bm25_results, combined_nodes, rerankVars, calls, faults,
                   other, ev, tool>>

\* return reranked_nodes
RetrieveReturns ==
    /\ pc = "rerank"
    /\ rr_pc = "done"
    /\ rerank_out.status = "returned"
    /\ retrieve_out' = Returned(rerank_out.value)
    /\ pc' = "done"
    /\ UNCHANGED <<heap, rankerScore, query, vector_weight, bm25_weight,
                   vector_results, bm25_results, combined_nodes, rerankVars, calls, faults,
                   other, ev, tool>>

\* an exception of rerank leaves _retrieve as it is
RetrievePropagates ==
    /\ pc = "rerank"
    /\ rr_pc = "done"
    /\ rerank_out.status = "raised"
    /\ retrieve_out' = Raised(rerank_out.error)
    /\ pc' = "done"
    /\ UNCHANGED <<heap, rankerScore, query, vector_weight, bm25_weight,
                   vector_results, bm25_results, combined_nodes, rerankVars, calls, faults,
                   other, ev, tool>>

\* --------------------------------------------------------- steps of rerank

\* no short-circuit: the empty list goes on to the scorer
RerankEmpty_CallsScorer ==
    /\ rr_pc = "check"
    /\ nodes = <<>>
    /\ pairs' = <<>>
    /\ rr_pc' = "predict"
    /\ UNCHANGED <<heap, rankerScore, query, retrieveVars, nodes, top_k, scores,
                   rerank_out, calls, faults, other, ev, tool>>

\* the empty list refused as an error
RerankEmpty_Raises ==
    /\ rr_pc = "check"
    /\ nodes = <<>>
    /\ rerank_out' = Raised("ValueError")
    /\ rr_pc' = "done"
    /\ UNCHANGED <<heap, rankerScore, query, retrieveVars, nodes, top_k, pairs,
                   scores, calls, faults, other, ev, tool>>

\* if not nodes: return []
RerankEmpty ==
    /\ rr_pc = "check"
    /\ nodes = <<>>
    /\ rerank_out' = Returned(<<>>)
    /\ rr_pc' = "done"
    /\ UNCHANGED <<heap, rankerScore, query, retrieveVars, nodes, top_k, pairs,
                   scores, calls, faults, other, ev, tool>>

\* pairs = [[query, node.text] for node in nodes]
BuildPairs ==
    /\ rr_pc = "check"
    /\ nodes # <<>>
    /\ pairs' = Pairs(heap, query, nodes)
    /\ rr_pc' = "predict"
    /\ UNCHANGED <<heap, rankerScore, query, retrieveVars, nodes, top_k, scores,
                   rerank_out, calls, faults, other, ev, tool>>

\* scores = self.model.predict(pairs): one value per pair
PredictReturns ==
    /\ rr_pc = "predict"
    /\ \E sc \in [1..Len(pairs) -> PredValues] : scores' = sc
    /\ rr_pc' = "assign"
    /\ calls' = [calls EXCEPT !.predict = @ + 1]
    /\ UNCHANGED <<heap, rankerScore, query, retrieveVars, nodes, top_k, pairs,
                   rerank_out, faults, other, ev, tool>>

\* a failure of predict caught, the candidates returned in the order they came
PredictRaises_Fallback ==
    /\ rr_pc = "predict"
    /\ rerank_out' = Returned(nodes)
    /\ rr_pc' = "done"
    /\ calls' = [calls EXCEPT !.predict = @ + 1]
    /\ faults' = faults \cup {"predict"}
    /\ UNCHANGED <<heap, rankerScore, query, retrieveVars, nodes, top_k, pairs,
                   scores, other, ev, tool>>

\* a rerank that clears the scores of its candidates when predict raises
PredictRaises_ClearsScores ==
    /\ rr_pc = "predict"
    /\ rerank_out' = Raised("ScorerError")
    /\ rr_pc' = "done"
    /\ calls' = [calls EXCEPT !.predict = @ + 1]
    /\ faults' = faults \cup {"predict"}
    /\ heap' = [r \in DOMAIN heap |->
                   IF \E i \in DOMAIN nodes : nodes[i] = r
                   THEN [heap[r] EXCEPT !.score = None]
                   ELSE heap[r]]
    /\ UNCHANGED <<rankerScore, query, retrieveVars, nodes, top_k, pairs,
                   scores, other, ev, tool>>

\* ... or predict raises, and nothing in rerank catches it
PredictRaises ==
    /\ rr_pc = "predict"
    /\ rerank_out' = Raised("ScorerError")
    /\ rr_pc' = "done"
    /\ calls' = [calls EXCEPT !.predict = @ + 1]
    /\ faults' = faults \cup {"predict"}
    /\ UNCHANGED <<heap, rankerScore, query, retrieveVars, nodes, top_k, pairs,
                   scores, other, ev, tool>>

\* for node, score in zip(nodes, scores): node.score = float(score)
AssignScores ==
    /\ rr_pc = "assign"
    /\ LET res == AssignLoop(heap, nodes, scores)
       IN  /\ heap' = res[1]
           /\ IF res[2]
              THEN rr_pc' = "sort" /\ rerank_out' = rerank_out
              ELSE rr_pc' = "done" /\ rerank_out' = Raised("TypeError")
    /\ UNCHANGED <<rankerScore, query, retrieveVars, nodes, top_k, pairs, scores,
                   calls, faults, other, ev, tool>>

\* a rerank that sorts the list it was given in place (nodes.sort) and
\* returns a slice of it
SortAndReturn_InPlace ==
    /\ rr_pc = "sort"
    /\ nodes' = SortedDesc(heap, nodes)
    /\ rerank_out' = Returned(SliceTo(nodes', top_k))
    /\ rr_pc' = "done"
    /\ UNCHANGED <<heap, rankerScore, query, retrieveVars, top_k, pairs,
                   scores, calls, faults, other, ev, tool>>

\* reranked = sorted(nodes, key=..., reverse=True)[:top_k]; return reranked
SortAndReturn ==
    /\ rr_pc = "sort"
    /\ rerank_out' = Returned(Reranked(heap, nodes, top_k))
    /\ rr_pc' = "done"
    /\ UNCHANGED <<heap, rankerScore, query, retrieveVars, nodes, top_k, pairs,
                   scores, calls, faults, other, ev, tool>>

RerankNext ==
    \/ RerankEmpty
    \/ BuildPairs
    \/ PredictReturns
    \/ PredictRaises
    \/ AssignScores
    \/ SortAndReturn

\* ---------------------------------------------------------- _retrieve(query)

Next ==
    \/ VectorReturns
    \/ VectorRaises
    \/ Bm25Returns
    \/ Bm25Raises
    \/ WeightVector
    \/ WeightBm25
    \/ Combine
    \/ RerankNext
    \/ RetrieveReturns
    \/ RetrievePropagates

Spec == Init /\ [][Next]_vars

\* ------------------------------------- rerank(query, nodes, top_k) called alone

InitDirect ==
    /\ InitHeap
    /\ vector_weight \in {0}
    /\ bm25_weight \in {0}
    /\ query \in Queries
    /\ pc = "direct"
    /\ vector_results = <<>>
    /\ bm25_results = <<>>
    /\ combined_nodes = <<>>
    /\ retrieve_out = NoOutcome
    /\ InitRerank
    /\ calls = [vector |-> 0, bm25 |-> 0, rerank |-> 0, predict |-> 0]
    /\ faults = {}
    /\ other = NoCall
    /\ ev = NoEval
    /\ tool = NoTool

\* a caller enters rerank with a list of its own and a top_k of its own
CallRerank ==
    /\ pc = "direct"
    /\ rr_pc = "idle"
    /\ \E ns \in BoundedSeq(Refs, MaxNodes) : nodes' = ns
    /\ \E k \in TopKs : top_k' = k
    /\ rr_pc' = "check"
    /\ calls' = [calls EXCEPT !.rerank = @ + 1]
    /\ UNCHANGED <<heap, rankerScore, query, retrieveVars, pairs, scores,
                   rerank_out, faults, other, ev, tool>>

NextDirect ==
    \/ CallRerank
    \/ RerankNext

SpecRerank == InitDirect /\ [][NextDirect]_vars

\* ------------------------- _retrieve(query) with more than 5 candidates

\* the objects of a larger index: six ids, the first of them held by two objects
ManyRefs == {1, 2, 3, 5, 7, 9, 11}
\* the lists the two rankers can return from it
DenseLists == {<<>>, <<1, 3, 5>>, <<1, 3, 5, 7>>}
SparseLists == {<<>>, <<9, 11>>, <<2, 9, 11>>}

InitMany ==
    /\ rankerScore = [r \in ManyRefs |-> Num(r)]
    /\ heap = [r \in ManyRefs |-> [node_id |-> IdOf(r), text |-> TextOf(r),
                                   metadata |-> MetadataOf(r),
                                   score |-> rankerScore[r]]]
    /\ vector_weight \in Weights
    /\ bm25_weight \in Weights
    /\ query \in Queries
    /\ pc = "vector"
    /\ vector_results = <<>>
    /\ bm25_results = <<>>
    /\ combined_nodes = <<>>
    /\ retrieve_out = NoOutcome
    /\ InitRerank
    /\ calls = [vector |-> 0, bm25 |-> 0, rerank |-> 0, predict |-> 0]
    /\ faults = {}
    /\ other = NoCall
    /\ ev = NoEval
    /\ tool = NoTool

\* vector_results = self.vector_retriever.retrieve(query, **kwargs)
VectorReturnsMany ==
    /\ pc = "vector"
    /\ \E r \in DenseLists : vector_results' = r
    /\ pc' = "bm25"
    /\ calls' = [calls EXCEPT !.vector = @ + 1]
    /\ UNCHANGED <<heap, rankerScore, query, vector_weight, bm25_weight,
                   bm25_results, combined_nodes, retrieve_out, rerankVars, faults,
                   other, ev, tool>>

\* bm25_results = self.bm25_retriever.retrieve(query, **kwargs)
Bm25ReturnsMany ==
    /\ pc = "bm25"
    /\ \E r \in SparseLists : bm25_results' = r
    /\ pc' = "weight_vector"
    /\ calls' = [calls EXCEPT !.bm25 = @ + 1]
    /\ UNCHANGED <<heap, rankerScore, query, vector_weight, bm25_weight,
                   vector_results, combined_nodes, retrieve_out, rerankVars, faults,
                   other, ev, tool>>

NextMany ==
    \/ VectorReturnsMany
    \/ VectorRaises
    \/ Bm25ReturnsMany
    \/ Bm25Raises
    \/ WeightVector
    \/ WeightBm25
    \/ Combine
    \/ RerankNext
    \/ RetrieveReturns
    \/ RetrievePropagates

SpecMany == InitMany /\ [][NextMany]_vars

\* ------------------ _retrieve(query) called again on the same candidates

\* the arguments and locals of the running call of _retrieve, as one record
Locals ==
    [query |-> query, pc |-> pc, vector_results |-> vector_results,
     bm25_results |-> bm25_results, combined_nodes |-> combined_nodes,
     retrieve_out |-> retrieve_out, rr_pc |-> rr_pc, nodes |-> nodes,
     top_k |-> top_k, pairs |-> pairs, scores |-> scores,
     rerank_out |-> rerank_out]

\* the scores the candidates of a returned list carry, in the list's order
ScoresOf(h, s) == [i \in DOMAIN s |-> h[s[i]].score]

\* a retriever with non-zero weights; the first object may come without score
InitRepeat ==
    /\ rankerScore \in {[r \in Refs |-> Num(r)],
                        [r \in Refs |-> IF r = 1 THEN None ELSE Num(r)]}
    /\ heap = [r \in Refs |-> [node_id |-> IdOf(r), text |-> TextOf(r),
                               metadata |-> MetadataOf(r),
                               score |-> rankerScore[r]]]
    /\ vector_weight = 2
    /\ bm25_weight = 2
    /\ query \in Queries
    /\ pc = "vector"
    /\ vector_results = <<>>
    /\ bm25_results = <<>>
    /\ combined_nodes = <<>>
    /\ retrieve_out = NoOutcome
    /\ InitRerank
    /\ calls = [vector |-> 0, bm25 |-> 0, rerank |-> 0, predict |-> 0]
    /\ faults = {}
    /\ other = NoCall
    /\ ev = NoEval
    /\ tool = NoTool

\* the first call is running
FirstCall == other = NoCall

\* the first call has ended, by return or by the TypeError of float(None);
\* _retrieve(query) is called again with the same query. What the first
\* call returned is kept, with the scores its candidates carried then.
Again ==
    /\ FirstCall
    /\ pc = "done"
    /\ retrieve_out.status = "returned" \/ retrieve_out.error = "TypeError"
    /\ other' = [state |-> "finished", locals |-> Locals,
                 result_scores |-> ScoresOf(heap, retrieve_out.value)]
    /\ pc' = "vector"
    /\ vector_results' = <<>>
    /\ bm25_results' = <<>>
    /\ combined_nodes' = <<>>
    /\ retrieve_out' = NoOutcome
    /\ rr_pc' = "idle"
    /\ nodes' = <<>>
    /\ top_k' = 0
    /\ pairs' = <<>>
    /\ scores' = <<>>
    /\ rerank_out' = NoOutcome
    /\ UNCHANGED <<heap, rankerScore, query, vector_weight, bm25_weight, calls,
                   faults, ev, tool>>

\* the dense ranker returns the list it returned to the first call: the same
\* objects, with whatever score they carry by now
VectorReturnsSame ==
    /\ ~FirstCall
    /\ pc = "vector"
    /\ vector_results' = other.locals.vector_results
    /\ pc' = "bm25"
    /\ calls' = [calls EXCEPT !.vector = @ + 1]
    /\ UNCHANGED <<heap, rankerScore, query, vector_weight, bm25_weight,
                   bm25_results, combined_nodes, retrieve_out, rerankVars, faults,
                   other, ev, tool>>

\* ... and so does the sparse ranker
Bm25ReturnsSame ==
    /\ ~FirstCall
    /\ pc = "bm25"
    /\ bm25_results' = other.locals.bm25_results
    /\ pc' = "weight_vector"
    /\ calls' = [calls EXCEPT !.bm25 = @ + 1]
    /\ UNCHANGED <<heap, rankerScore, query, vector_weight, bm25_weight,
                   vector_results, combined_nodes, retrieve_out, rerankVars, faults,
                   other, ev, tool>>

\* a scorer with fixed output: the values it gave the first call for the
\* same pairs, any values for other pairs
PredictSame ==
    /\ ~FirstCall
    /\ rr_pc = "predict"
    /\ \E sc \in [1..Len(pairs) -> PredValues] :
           /\ pairs = other.locals.pairs => sc = other.locals.scores
           /\ scores' = sc
    /\ rr_pc' = "assign"
    /\ calls' = [calls EXCEPT !.predict = @ + 1]
    /\ UNCHANGED <<heap, rankerScore, query, retrieveVars, nodes, top_k, pairs,
                   rerank_out, faults, other, ev, tool>>

NextRepeat ==
    \/ FirstCall /\ VectorReturns
    \/ FirstCall /\ Bm25Returns
    \/ FirstCall /\ PredictReturns
    \/ VectorReturnsSame
    \/ Bm25ReturnsSame
    \/ PredictSame
    \/ WeightVector
    \/ WeightBm25
    \/ Combine
    \/ RerankEmpty
    \/ BuildPairs
    \/ AssignScores
    \/ SortAndReturn
    \/ RetrieveReturns
    \/ RetrievePropagates
    \/ Again

SpecRepeat == InitRepeat /\ [][NextRepeat]_vars

\* ------------------- two calls of _retrieve in two threads, one retriever

\* the queries of the two calls
FirstQuery == "q"
SecondQuery == "q2"

\* the lists the rankers can return to either call: objects of one index,
\* so the two calls can be given the same objects, or different ones
SharedDense == {<<>>, <<1, 3>>}
SharedSparse == {<<>>, <<2>>, <<3>>}

\* a call of _retrieve(q) that has not taken its first step
FreshLocals(q) ==
    [query |-> q, pc |-> "vector", vector_results |-> <<>>,
     bm25_results |-> <<>>, combined_nodes |-> <<>>, retrieve_out |-> NoOutcome,
     rr_pc |-> "idle", nodes |-> <<>>, top_k |-> 0, pairs |-> <<>>,
     scores |-> <<>>, rerank_out |-> NoOutcome]

\* one thread is about to run _retrieve(FirstQuery), another one is waiting
\* to run _retrieve(SecondQuery) on the same HybridRetriever
InitConcurrent ==
    /\ rankerScore = [r \in Refs |-> Num(r)]
    /\ heap = [r \in Refs |-> [node_id |-> IdOf(r), text |-> TextOf(r),
                               metadata |-> MetadataOf(r),
                               score |-> rankerScore[r]]]
    /\ vector_weight = 2
    /\ bm25_weight = 2
    /\ query = FirstQuery
    /\ pc = "vector"
    /\ vector_results = <<>>
    /\ bm25_results = <<>>
    /\ combined_nodes = <<>>
    /\ retrieve_out = NoOutcome
    /\ InitRerank
    /\ calls = [vector |-> 0, bm25 |-> 0, rerank |-> 0, predict |-> 0]
    /\ faults = {}
    /\ other = [state |-> "suspended", locals |-> FreshLocals(SecondQuery)]
    /\ ev = NoEval
    /\ tool = NoTool

\* the running thread is suspended between two steps and the other one, if
\* it has steps left, goes on: the locals of the two calls change places,
\* the objects and the retriever stay where they are
Switch ==
    /\ other.state = "suspended"
    /\ other.locals.pc # "done"
    /\ other' = [other EXCEPT !.locals = Locals]
    /\ query' = other.locals.query
    /\ pc' = other.locals.pc
    /\ vector_results' = other.locals.vector_results
    /\ bm25_results' = other.locals.bm25_results
    /\ combined_nodes' = other.locals.combined_nodes
    /\ retrieve_out' = other.locals.retrieve_out
    /\ rr_pc' = other.locals.rr_pc
    /\ nodes' = other.locals.nodes
    /\ top_k' = other.locals.top_k
    /\ pairs' = other.locals.pairs
    /\ scores' = other.locals.scores
    /\ rerank_out' = other.locals.rerank_out
    /\ UNCHANGED <<heap, rankerScore, vector_weight, bm25_weight, calls, faults, ev,
                   tool>>

\* vector_results = self.vector_retriever.retrieve(query, **kwargs)
VectorReturnsShared ==
    /\ pc = "vector"
    /\ \E r \in SharedDense : vector_results' = r
    /\ pc' = "bm25"
    /\ calls' = [calls EXCEPT !.vector = @ + 1]
    /\ UNCHANGED <<heap, rankerScore, query, vector_weight, bm25_weight,
                   bm25_results, combined_nodes, retrieve_out, rerankVars, faults,
                   other, ev, tool>>

\* bm25_results = self.bm25_retriever.retrieve(query, **kwargs)
Bm25ReturnsShared ==
    /\ pc = "bm25"
    /\ \E r \in SharedSparse : bm25_results' = r
    /\ pc' = "weight_vector"
    /\ calls' = [calls EXCEPT !.bm25 = @ + 1]
    /\ UNCHANGED <<heap, rankerScore, query, vector_weight, bm25_weight,
                   vector_results, combined_nodes, retrieve_out, rerankVars, faults,
                   other, ev, tool>>

NextConcurrent ==
    \/ Switch
    \/ VectorReturnsShared
    \/ Bm25ReturnsShared
    \/ WeightVector
    \/ WeightBm25
    \/ Combine
    \/ RerankEmpty
    \/ BuildPairs
    \/ PredictReturns
    \/ AssignScores
    \/ SortAndReturn
    \/ RetrieveReturns
    \/ RetrievePropagates

SpecConcurrent == InitConcurrent /\ [][NextConcurrent]_vars

\* the objects as the rankers return them, before _retrieve touches a score
RankerHeap ==
    [r \in DOMAIN heap |-> [node_id |-> IdOf(r), text |-> TextOf(r),
                            metadata |-> MetadataOf(r), score |-> rankerScore[r]]]

\* -------- _retrieve(query) called again under other weights, same inputs

\* the first call has ended; the retriever's weights are set to any values
\* and _retrieve(query) is called again, the rankers returning what they
\* returned before: the same candidates with the scores they had then
AgainReweighted ==
    /\ FirstCall
    /\ pc = "done"
    /\ retrieve_out.status = "returned" \/ retrieve_out.error = "TypeError"
    /\ other' = [state |-> "finished", locals |-> Locals,
                 result_scores |-> ScoresOf(heap, retrieve_out.value),
                 weights |-> <<vector_weight, bm25_weight>>]
    /\ heap' = RankerHeap
    /\ \E vw \in Weights, bw \in Weights :
           /\ vector_weight' = vw
           /\ bm25_weight' = bw
    /\ pc' = "vector"
    /\ vector_results' = <<>>
    /\ bm25_results' = <<>>
    /\ combined_nodes' = <<>>
    /\ retrieve_out' = NoOutcome
    /\ rr_pc' = "idle"
    /\ nodes' = <<>>
    /\ top_k' = 0
    /\ pairs' = <<>>
    /\ scores' = <<>>
    /\ rerank_out' = NoOutcome
    /\ UNCHANGED <<rankerScore, query, calls, faults, ev, tool>>

NextReweighted ==
    \/ FirstCall /\ VectorReturns
    \/ FirstCall /\ Bm25Returns
    \/ FirstCall /\ PredictReturns
    \/ VectorReturnsSame
    \/ Bm25ReturnsSame
    \/ PredictSame
    \/ WeightVector
    \/ WeightBm25
    \/ Combine
    \/ RerankEmpty
    \/ BuildPairs
    \/ AssignScores
    \/ SortAndReturn
    \/ RetrieveReturns
    \/ RetrievePropagates
    \/ AgainReweighted

SpecReweighted == InitRepeat /\ [][NextReweighted]_vars

\* ------------- evaluate_retrieval(query, retrieved_docs, relevant_doc_ids)

\* doc ids, held as one-element tuples so that None is comparable with them
DocIds == {<<"doc1">>, <<"doc2">>}

\* a retrieved item: whether it has a metadata attribute at all, and the
\* attribute's value, None or <<d>> with d the dict as a set of <<key, value>>
NoMetadataDoc == [has_metadata |-> FALSE, metadata |-> None]
NoneMetadataDoc == [has_metadata |-> TRUE, metadata |-> None]
EmptyMetadataDoc == [has_metadata |-> TRUE, metadata |-> <<{}>>]
Doc(id) == [has_metadata |-> TRUE, metadata |-> <<{<<"doc_id", id>>}>>]
Docs == {NoMetadataDoc, NoneMetadataDoc, EmptyMetadataDoc} \cup {Doc(id) : id \in DocIds}

\* d.get(k): the value under k, None when d has no key k
DictGet(d, k) ==
    IF \E kv \in d : kv[1] = k THEN (CHOOSE kv \in d : kv[1] = k)[2] ELSE None

\* a quotient a / b of two ints (b > 0) kept exact, and the float 0.0
Quotient(a, b) == [num |-> a, den |-> b]
Zero == [num |-> 0, den |-> 1]

\* [doc.metadata.get('doc_id') for doc in retrieved_docs
\*      if hasattr(doc, 'metadata') and doc.metadata is not None]
RECURSIVE RetrievedIds(_)
RetrievedIds(docs) ==
    IF docs = <<>> THEN <<>>
    ELSE LET doc == Head(docs)
         IN  IF doc.has_metadata /\ doc.metadata # None
             THEN <<DictGet(doc.metadata[1], "doc_id")>> \o RetrievedIds(Tail(docs))
             ELSE RetrievedIds(Tail(docs))

\* set(xs)
SetOf(xs) == {xs[i] : i \in DOMAIN xs}

\* the retrieved items that are relevant counted one by one, not as a set
RelevantRetrievedCount_PerItem(retrieved_ids, relevant_doc_ids) ==
    Cardinality({i \in DOMAIN retrieved_ids :
                     retrieved_ids[i] \in SetOf(relevant_doc_ids)})

\* len(set(retrieved_ids) & set(relevant_doc_ids))
RelevantRetrievedCount(retrieved_ids, relevant_doc_ids) ==
    Cardinality(SetOf(retrieved_ids) \cap SetOf(relevant_doc_ids))

\* relevant_retrieved_count / len(retrieved_ids) if retrieved_ids else 0.0
Precision(retrieved_ids, relevant_doc_ids) ==
    IF retrieved_ids # <<>>
    THEN Quotient(RelevantRetrievedCount(retrieved_ids, relevant_doc_ids),
                  Len(retrieved_ids))
    ELSE Zero

\* relevant_retrieved_count / len(relevant_doc_ids) if relevant_doc_ids else 0.0
Recall(retrieved_ids, relevant_doc_ids) ==
    IF relevant_doc_ids # <<>>
    THEN Quotient(RelevantRetrievedCount(retrieved_ids, relevant_doc_ids),
                  Len(relevant_doc_ids))
    ELSE Zero

\* evaluate_retrieval is called; no retriever is involved
InitEval ==
    /\ rankerScore = [r \in Refs |-> None]
    /\ heap = [r \in Refs |-> [node_id |-> IdOf(r), text |-> TextOf(r),
                               metadata |-> MetadataOf(r),
                               score |-> rankerScore[r]]]
    /\ vector_weight = 0
    /\ bm25_weight = 0
    /\ query \in Queries
    /\ pc = "none"
    /\ vector_results = <<>>
    /\ bm25_results = <<>>
    /\ combined_nodes = <<>>
    /\ retrieve_out = NoOutcome
    /\ InitRerank
    /\ calls = [vector |-> 0, bm25 |-> 0, rerank |-> 0, predict |-> 0]
    /\ faults = {}
    /\ other = NoCall
    /\ \E docs \in BoundedSeq(Docs, MaxDocs), ids \in BoundedSeq(DocIds, MaxRelevant) :
           ev = [pc |-> "called", query |-> query, retrieved_docs |-> docs,
                 relevant_doc_ids |-> ids, retrieved_ids |-> <<>>,
                 metrics |-> [precision |-> Zero, recall |-> Zero]]
    /\ tool = NoTool

\* the body of evaluate_retrieval, down to its return
Evaluate ==
    /\ ev.pc = "called"
    /\ LET retrieved_ids == RetrievedIds(ev.retrieved_docs)
       IN  ev' = [ev EXCEPT
                     !.pc = "returned",
                     !.retrieved_ids = retrieved_ids,
                     !.metrics = [precision |-> Precision(retrieved_ids,
                                                          ev.relevant_doc_ids),
                                  recall |-> Recall(retrieved_ids,
                                                    ev.relevant_doc_ids)]]
    /\ UNCHANGED <<heap, rankerScore, query, retrieveVars, rerankVars, calls,
                   faults, other, tool>>

NextEval == Evaluate

SpecEval == InitEval /\ [][NextEval]_vars

\* ----------------------------- CustomQueryEngineTool.call(*args, **kwargs)

\* Python values given to call: a str or an int
StrValue(v) == [type |-> "str", v |-> v]
IntValue(v) == [type |-> "int", v |-> v]
\* str(x)
Str(x) == IF x.type = "str" THEN x.v ELSE ToString(x.v)

\* the positional and the keyword arguments of a call (kwargs as a dict,
\* a set of <<key, value>>)
ToolArgs == {<<>>, <<StrValue("test query")>>, <<IntValue(1), IntValue(2)>>}
ToolKwargs == {{}, {<<"query", StrValue("kw query")>>}, {<<"kwarg1", StrValue("test")>>}}

\* _get_query_str(*args, **kwargs)
GetQueryStr(args, kwargs) ==
    IF args # <<>> THEN Str(args[1])
    ELSE IF \E kv \in kwargs : kv[1] = "query" THEN Str(DictGet(kwargs, "query"))
    ELSE ""

\* what the query engine can return: response.response is Optional[str],
\* response.metadata None or a dict whose values, in order, are the documents
DocA == [file_name |-> "doc_a.txt", url |-> "http://example.com/doc_a"]
DocB == [file_name |-> "doc_b.txt", url |-> "http://example.com/doc_b"]
DocADuplicate == [file_name |-> "doc_a.txt", url |-> "http://example.com/doc_a_duplicate"]
ResponseTexts == {None, <<"Raw Response">>, <<"">>}
ResponseMetadata == {None, <<<<>>>>, <<<<DocA>>>>, <<<<DocA, DocB, DocADuplicate>>>>}
Responses == [response : ResponseTexts, metadata : ResponseMetadata]
\* the messages of the exceptions it can raise
EngineMessages == {"Query Failed", ""}

\* documents_df.drop_duplicates(subset='file_name'): the first of each name
RECURSIVE DropDuplicates(_, _)
DropDuplicates(docs, seen) ==
    IF docs = <<>> THEN <<>>
    ELSE IF Head(docs).file_name \in seen
         THEN DropDuplicates(Tail(docs), seen)
         ELSE <<Head(docs)>> \o DropDuplicates(Tail(docs), seen \cup {Head(docs).file_name})

\* get_response_with_metadata(response, metadata): the text, then the
\* source documents, or the line saying that there are none
GetResponseWithMetadata(response, metadata) ==
    LET documents_info ==
            IF metadata # None /\ metadata[1] # <<>>
            THEN <<"Source documents:">> \o
                 [i \in DOMAIN DropDuplicates(metadata[1], {}) |->
                      <<"Document name: ", DropDuplicates(metadata[1], {})[i].file_name,
                        "Document link: ", DropDuplicates(metadata[1], {})[i].url>>]
            ELSE <<"Source documents:", "No relevant documents found.">>
    IN  [response |-> response, documents_info |-> documents_info]

\* no content built yet
NoContent == [none |-> TRUE]

\* f"Error processing query: {str(e)}"
ErrorContent(m) == [prefix |-> "Error processing query: ", message |-> m]

\* ToolOutput(content=..., tool_name=..., raw_input={"input": query_str}, raw_output=...)
ToolOutput(content, query_str, raw_output) ==
    [content |-> content, tool_name |-> "test_tool",
     raw_input |-> [input |-> query_str], raw_output |-> raw_output]

\* a tool wraps a query engine, and call(*args, **kwargs) is entered
InitTool ==
    /\ rankerScore = [r \in Refs |-> None]
    /\ heap = [r \in Refs |-> [node_id |-> IdOf(r), text |-> TextOf(r),
                               metadata |-> MetadataOf(r),
                               score |-> rankerScore[r]]]
    /\ vector_weight = 0
    /\ bm25_weight = 0
    /\ query \in Queries
    /\ pc = "none"
    /\ vector_results = <<>>
    /\ bm25_results = <<>>
    /\ combined_nodes = <<>>
    /\ retrieve_out = NoOutcome
    /\ InitRerank
    /\ calls = [vector |-> 0, bm25 |-> 0, rerank |-> 0, predict |-> 0]
    /\ faults = {}
    /\ other = NoCall
    /\ ev = NoEval
    /\ \E args \in ToolArgs, kwargs \in ToolKwargs :
           tool = [pc |-> "start", args |-> args, kwargs |-> kwargs,
                   query_str |-> "", engine |-> "none", response |-> None,
                   error |-> "", response_with_docs_info |-> NoContent,
                   query_calls |-> 0, format_calls |-> 0, out |-> NoOutcome]

ToolUnchanged ==
    UNCHANGED <<heap, rankerScore, query, retrieveVars, rerankVars, calls,
                faults, other, ev>>

\* query_str = self._get_query_str(*args, **kwargs)
ToolGetQueryStr ==
    /\ tool.pc = "start"
    /\ tool' = [tool EXCEPT !.pc = "query",
                            !.query_str = GetQueryStr(tool.args, tool.kwargs)]
    /\ ToolUnchanged

\* response = self._query_engine.query(query_str)
EngineReturns ==
    /\ tool.pc = "query"
    /\ \E r \in Responses :
           tool' = [tool EXCEPT !.pc = "log", !.engine = "returned",
                                !.response = <<r>>, !.query_calls = @ + 1]
    /\ ToolUnchanged

\* ... or query raises an Exception with message m: on to the except clause
EngineRaises ==
    /\ tool.pc = "query"
    /\ \E m \in EngineMessages :
           tool' = [tool EXCEPT !.pc = "except", !.engine = "raised",
                                !.error = m, !.query_calls = @ + 1]
    /\ ToolUnchanged

\* logger.debug(f"Response text: {response.response[:100]}..."): the f-string
\* is built whatever the log level, and None[:100] raises TypeError inside
\* the try block
LogResponse ==
    /\ tool.pc = "log"
    /\ IF tool.response[1].response = None
       THEN tool' = [tool EXCEPT !.pc = "except",
                                 !.error = "'NoneType' object is not subscriptable"]
       ELSE tool' = [tool EXCEPT !.pc = "format"]
    /\ ToolUnchanged

\* response_with_docs_info = self.get_response_with_metadata(...)
FormatResponse ==
    /\ tool.pc = "format"
    /\ tool' = [tool EXCEPT
                    !.pc = "return",
                    !.response_with_docs_info =
                        GetResponseWithMetadata(tool.response[1].response,
                                                tool.response[1].metadata),
                    !.format_calls = @ + 1]
    /\ ToolUnchanged

\* return ToolOutput(content=response_with_docs_info, ..., raw_output=response)
ToolReturns ==
    /\ tool.pc = "return"
    /\ tool' = [tool EXCEPT
                    !.pc = "done",
                    !.out = Returned(ToolOutput(tool.response_with_docs_info,
                                                tool.query_str, tool.response))]
    /\ ToolUnchanged

\* except Exception as e: return ToolOutput(content=f"Error ...", raw_output=None)
ToolReturnsError ==
    /\ tool.pc = "except"
    /\ tool' = [tool EXCEPT
                    !.pc = "done",
                    !.out = Returned(ToolOutput(ErrorContent(tool.error),
                                                tool.query_str, None))]
    /\ ToolUnchanged

NextTool ==
    \/ ToolGetQueryStr
    \/ EngineReturns
    \/ EngineRaises
    \/ LogResponse
    \/ FormatResponse
    \/ ToolReturns
    \/ ToolReturnsError

SpecTool == InitTool /\ [][NextTool]_vars

\* ------------------------------------------------------------ the claims

Range(s) == {s[i] : i \in DOMAIN s}
Positions(s, x) == {i \in DOMAIN s : s[i] = x}
LastPosition(s, x) == CHOOSE i \in Positions(s, x) : \A j \in Positions(s, x) : j <= i
IdsOf(s) == {heap[s[i]].node_id : i \in DOMAIN s}
PositionsOfId(s, x) == {i \in DOMAIN s : heap[s[i]].node_id = x}

\* _retrieve is handing combined_nodes to the reranker
Handed == pc = "rerank" /\ rr_pc = "check"

\* C1: whenever an id occurs in both the dense and the sparse results, the
\* one candidate with that id handed to the reranker is the last sparse
\* candidate with that id, with its text and metadata, and its score is the
\* score the sparse ranker gave it times bm25_weight.
C1_LastWriteWins ==
    Handed =>
        \A x \in IdsOf(vector_results) \cap IdsOf(bm25_results) :
            LET last == bm25_results[CHOOSE i \in PositionsOfId(bm25_results, x) :
                            \A j \in PositionsOfId(bm25_results, x) : j <= i]
            IN  /\ Cardinality(PositionsOfId(nodes, x)) = 1
                /\ \A i \in PositionsOfId(nodes, x) :
                       /\ nodes[i] = last
                       /\ heap[nodes[i]].text = TextOf(last)
                       /\ heap[nodes[i]].metadata = MetadataOf(last)
                       /\ heap[nodes[i]].score =
                              WeightedScore(rankerScore[last], bm25_weight)

\* C2: the list handed to the reranker holds exactly one candidate for each
\* id that occurs in the dense or the sparse results, and none for any
\* other id.
C2_FusedUnique ==
    Handed =>
        /\ \A x \in IdsOf(vector_results) \cup IdsOf(bm25_results) :
               Cardinality(PositionsOfId(nodes, x)) = 1
        /\ IdsOf(nodes) \subseteq IdsOf(vector_results) \cup IdsOf(bm25_results)

\* C2's case: an id is repeated inside the dense list by two candidates, the
\* sparse list brings another id, and the fused list is shorter than the two
C2_Witness ==
    /\ Handed
    /\ Len(vector_results) = 2
    /\ vector_results[1] # vector_results[2]
    /\ heap[vector_results[1]].node_id = heap[vector_results[2]].node_id
    /\ Len(bm25_results) = 1
    /\ Len(nodes) = 2

\* C3: a candidate of the fused list that only the dense ranker returned,
\* with score s, carries s * vector_weight; one that only the sparse ranker
\* returned carries s * bm25_weight.
C3_Weighting ==
    Handed =>
        \A r \in Range(nodes) :
            /\ (r \notin Range(bm25_results) /\ rankerScore[r] # None)
                   => heap[r].score = Num(rankerScore[r][1] * vector_weight)
            /\ (r \notin Range(vector_results) /\ rankerScore[r] # None)
                   => heap[r].score = Num(rankerScore[r][1] * bm25_weight)

\* rerank has returned a list
RerankReturned == rr_pc = "done" /\ rerank_out.status = "returned"

\* the value predict gave for the object r (for its last position in nodes)
AssignedScore(r) == scores[LastPosition(nodes, r)]

\* C4: the list rerank returns for a non-empty input is in non-increasing
\* order of the score the scorer assigned, and is a top-K selection: no
\* candidate left out has a strictly higher assigned score than one kept.
C4_SortCorrect ==
    (RerankReturned /\ nodes # <<>>) =>
        LET res == rerank_out.value
        IN  /\ Range(res) \subseteq Range(nodes)
            /\ \A r \in Range(nodes) : heap[r].score = AssignedScore(r)
            /\ \A i \in 1..(Len(res) - 1) :
                   AssignedScore(res[i])[1] >= AssignedScore(res[i + 1])[1]
            /\ \A r \in Range(nodes) \ Range(res) : \A q \in Range(res) :
                   AssignedScore(r)[1] <= AssignedScore(q)[1]

\* C4's case: three candidates scored 1, 0, 2 and top_k = 2 give the third,
\* then the first
C4_Witness ==
    /\ RerankReturned
    /\ Len(nodes) = 3
    /\ Cardinality(Range(nodes)) = 3
    /\ top_k = 2
    /\ scores = <<Num(1), Num(0), Num(2)>>
    /\ rerank_out.value = <<nodes[3], nodes[1]>>

\* C5 as stated: for every candidate list and every integer top_k the
\* returned list has min(top_k, number of unique candidates) entries.
C5_TopKBound ==
    RerankReturned =>
        Len(rerank_out.value) = Min(top_k, Cardinality(Range(nodes)))

\* C5 amended: for every candidate list and every top_k >= 0 the returned
\* list has min(top_k, len(candidates)) entries, repeated entries counted;
\* when top_k is at least len(candidates) all of them are returned, sorted.
C5_TopKBoundAmended ==
    (RerankReturned /\ top_k >= 0) =>
        LET res == rerank_out.value
        IN  /\ Len(res) = Min(top_k, Len(nodes))
            /\ top_k >= Len(nodes) =>
                   /\ \A r \in Refs : Cardinality(Positions(res, r))
                                        = Cardinality(Positions(nodes, r))
                   /\ \A i \in 1..(Len(res) - 1) :
                          SortKey(heap, res[i]) >= SortKey(heap, res[i + 1])

\* C5's case: three entries, one object twice among them, cut to top_k = 2
C5_Witness ==
    /\ RerankReturned
    /\ Len(nodes) = 3
    /\ Cardinality(Range(nodes)) = 2
    /\ top_k = 2
    /\ Len(rerank_out.value) = 2

\* C6: rerank on an empty list returns the empty list, and predict is never
\* called during that call.
C6_EmptyShortCircuit ==
    (calls.rerank = 1 /\ nodes = <<>>) =>
        /\ calls.predict = 0
        /\ rr_pc \in {"check", "done"}
        /\ rr_pc = "done" => rerank_out = Returned(<<>>)
        /\ rr_pc # "done" => ENABLED RerankNext

\* C6's case: a call with the empty list has returned
C6_Witness ==
    /\ calls.rerank = 1
    /\ nodes = <<>>
    /\ rr_pc = "done"
    /\ rerank_out.status = "returned"

\* C7: when predict gives None for a candidate, rerank returns, ordering
\* that candidate as if its score were 0.0, with its stored score None.
C7_NullScoreTolerance ==
    (rr_pc = "done" /\ \E i \in DOMAIN scores : scores[i] = None) =>
        LET res == rerank_out.value
            key(r) == IF AssignedScore(r) = None THEN 0 ELSE AssignedScore(r)[1]
        IN  /\ rerank_out.status = "returned"
            /\ \A r \in Range(nodes) : heap[r].score = AssignedScore(r)
            /\ \A i \in 1..(Len(res) - 1) : key(res[i]) >= key(res[i + 1])

\* C8: when predict raises, rerank and _retrieve raise that failure, predict
\* is not called again, and neither returns a list.
C8_ScorerFailurePropagates ==
    "predict" \in faults =>
        /\ calls.predict = 1
        /\ rr_pc = "done"
        /\ rerank_out = Raised("ScorerError")
        /\ pc \in {"rerank", "done"}
        /\ retrieve_out.status # "returned"
        /\ pc = "done" => retrieve_out = Raised("ScorerError")
        /\ pc # "done" => ENABLED Next

\* C8's case: predict has raised on two fused candidates, _retrieve is over
C8_Witness ==
    /\ "predict" \in faults
    /\ Len(nodes) = 2
    /\ pc = "done"
    /\ retrieve_out.status = "raised"

\* C9: when a ranker's retrieve raises, _retrieve raises that failure at
\* once: no call is repeated, the reranker and the scorer are never called,
\* no score is touched and no list is returned.
C9_RankerFailurePropagates ==
    /\ "vector" \in faults =>
           /\ pc = "done"
           /\ retrieve_out = Raised("VectorRetrieverError")
           /\ calls = [vector |-> 1, bm25 |-> 0, rerank |-> 0, predict |-> 0]
    /\ "bm25" \in faults =>
           /\ pc = "done"
           /\ retrieve_out = Raised("Bm25RetrieverError")
           /\ calls = [vector |-> 1, bm25 |-> 1, rerank |-> 0, predict |-> 0]
    /\ faults \cap {"vector", "bm25"} # {} =>
           /\ rr_pc = "idle"
           /\ \A r \in Refs : heap[r].score = rankerScore[r]

\* C9's case: the dense ranker has returned candidates, the sparse one raised
C9_Witness ==
    /\ "bm25" \in faults
    /\ vector_results # <<>>
    /\ pc = "done"

\* both rankers have returned the empty list
BothEmpty ==
    /\ faults = {}
    /\ calls.bm25 = 1
    /\ vector_results = <<>>
    /\ bm25_results = <<>>

\* C10: when both rankers return empty lists, _retrieve returns the empty
\* list; the reranker is called once, with the empty list, and predict never.
C10_EmptyResult ==
    BothEmpty =>
        /\ calls.predict = 0
        /\ retrieve_out.status # "raised"
        /\ rerank_out.status # "raised"
        /\ pc \in {"rerank", "done"} => (calls.rerank = 1 /\ nodes = <<>>)
        /\ pc = "done" => retrieve_out = Returned(<<>>)
        /\ pc # "done" => ENABLED Next

\* C10's case: both lists were empty and _retrieve has returned
C10_Witness ==
    /\ BothEmpty
    /\ pc = "done"
    /\ retrieve_out.status = "returned"
    /\ calls.rerank = 1

\* _retrieve has returned a list
RetrieveReturned == pc = "done" /\ retrieve_out.status = "returned"

\* C14: no step changes the id, the text or the metadata of a candidate
\* object, only its score; every candidate of the list _retrieve returns is
\* an object one of the two rankers returned, with the id, text and metadata
\* it had then.
C14_OnlyScoreChanges ==
    /\ \A r \in DOMAIN heap :
           /\ heap[r].node_id = IdOf(r)
           /\ heap[r].text = TextOf(r)
           /\ heap[r].metadata = MetadataOf(r)
    /\ RetrieveReturned =>
           \A i \in DOMAIN retrieve_out.value :
               retrieve_out.value[i] \in Range(vector_results) \cup Range(bm25_results)

\* C14's case: _retrieve has returned two candidates, one from each ranker,
\* and both carry a score that is no longer the one their ranker gave
C14_Witness ==
    /\ RetrieveReturned
    /\ Len(retrieve_out.value) = 2
    /\ Len(vector_results) = 1
    /\ Len(bm25_results) = 1
    /\ \A i \in DOMAIN retrieve_out.value :
           heap[retrieve_out.value[i]].score # rankerScore[retrieve_out.value[i]]

\* C19: every candidate handed to the reranker has a numeric score, and that
\* score is 0 when the ranker returned the candidate without a score.
C19_NullScoreIsZero ==
    Handed =>
        \A i \in DOMAIN nodes :
            /\ heap[nodes[i]].score # None
            /\ rankerScore[nodes[i]] = None => heap[nodes[i]].score = Num(0)

\* C19's case: under non-zero weights, a candidate that came without a score
\* is handed over next to one whose weighted score is not 0
C19_Witness ==
    /\ Handed
    /\ vector_weight # 0
    /\ bm25_weight # 0
    /\ \E i \in DOMAIN nodes : rankerScore[nodes[i]] = None
    /\ \E i \in DOMAIN nodes : heap[nodes[i]].score \notin {None, Num(0)}

\* the fused list is the dedup by id of one ranker's list rs, each candidate
\* carrying its ranker score times that ranker's weight w
FusedFromOne(rs, w) ==
    /\ IdsOf(nodes) = IdsOf(rs)
    /\ \A i \in DOMAIN nodes :
           /\ nodes[i] \in Range(rs)
           /\ Cardinality(PositionsOfId(nodes, heap[nodes[i]].node_id)) = 1
           /\ heap[nodes[i]].score = WeightedScore(rankerScore[nodes[i]], w)

\* C20: when one ranker returns nothing, the list handed to the reranker is
\* the other ranker's candidates, one per id, each with its ranker score
\* times that ranker's weight; when both return nothing, the list is empty.
C20_EmptySide ==
    Handed =>
        /\ (vector_results = <<>> /\ bm25_results # <<>>) =>
               FusedFromOne(bm25_results, bm25_weight)
        /\ (bm25_results = <<>> /\ vector_results # <<>>) =>
               FusedFromOne(vector_results, vector_weight)
        /\ (vector_results = <<>> /\ bm25_results = <<>>) => nodes = <<>>

\* evaluate_retrieval has returned its metrics
Evaluated == ev.pc = "returned"

\* two quotients are the same number
SameNumber(a, b) == a.num * b.den = b.num * a.den

\* the retrieved items that have a metadata dict with a doc_id in it
HasUsableId(doc) ==
    /\ doc.has_metadata
    /\ doc.metadata # None
    /\ \E kv \in doc.metadata[1] : kv[1] = "doc_id"

\* the set of the doc ids of those items
UsableIds(docs) ==
    {DictGet(docs[i].metadata[1], "doc_id") : i \in {j \in DOMAIN docs : HasUsableId(docs[j])}}

\* C15: the precision returned is the number of distinct retrieved doc ids
\* that are relevant over the number of distinct retrieved doc ids, whether or
\* not a doc id is retrieved more than once, and 0.0 when no id is retrieved.
C15_Precision ==
    Evaluated =>
        LET retrievedIds == UsableIds(ev.retrieved_docs)
            relevantIds == SetOf(ev.relevant_doc_ids)
        IN  IF retrievedIds = {}
            THEN SameNumber(ev.metrics.precision, Zero)
            ELSE SameNumber(ev.metrics.precision,
                            Quotient(Cardinality(retrievedIds \cap relevantIds),
                                     Cardinality(retrievedIds)))

\* C16: the recall returned is the number of distinct retrieved doc ids that
\* are relevant over the number of distinct relevant ids, whether or not the
\* relevant list repeats an id, and 0.0 when the relevant list is empty; one
\* retrieved doc x against no relevant id gives 0.0 and 0.0, against [x] gives
\* 1.0 and 1.0.
C16_Recall ==
    Evaluated =>
        LET retrievedIds == UsableIds(ev.retrieved_docs)
            relevantIds == SetOf(ev.relevant_doc_ids)
        IN  /\ IF relevantIds = {}
               THEN SameNumber(ev.metrics.recall, Zero)
               ELSE SameNumber(ev.metrics.recall,
                               Quotient(Cardinality(retrievedIds \cap relevantIds),
                                        Cardinality(relevantIds)))
            /\ \A x \in DocIds :
                   ev.retrieved_docs = <<Doc(x)>> =>
                       /\ ev.relevant_doc_ids = <<>> =>
                              /\ SameNumber(ev.metrics.precision, Zero)
                              /\ SameNumber(ev.metrics.recall, Zero)
                       /\ ev.relevant_doc_ids = <<x>> =>
                              /\ SameNumber(ev.metrics.precision, Quotient(1, 1))
                              /\ SameNumber(ev.metrics.recall, Quotient(1, 1))

\* the items of docs that have a usable id, in their order
RECURSIVE OnlyUsable(_)
OnlyUsable(docs) ==
    IF docs = <<>> THEN <<>>
    ELSE IF HasUsableId(Head(docs))
         THEN <<Head(docs)>> \o OnlyUsable(Tail(docs))
         ELSE OnlyUsable(Tail(docs))

\* C17: an item with no metadata attribute, with metadata None or with
\* metadata that has no doc_id gives no entry to retrieved_ids, so the
\* metrics are those of the list without such items; [doc1, item with {}
\* metadata, item with no metadata, doc2] against [doc1, doc2] gives
\* precision 1.0 and recall 1.0.
C17_UnusableNotCounted ==
    Evaluated =>
        /\ Len(ev.retrieved_ids) = Len(OnlyUsable(ev.retrieved_docs))
        /\ SameNumber(ev.metrics.precision,
                      Precision(RetrievedIds(OnlyUsable(ev.retrieved_docs)),
                                ev.relevant_doc_ids))
        /\ SameNumber(ev.metrics.recall,
                      Recall(RetrievedIds(OnlyUsable(ev.retrieved_docs)),
                             ev.relevant_doc_ids))
        /\ ( /\ ev.retrieved_docs = <<Doc(<<"doc1">>), EmptyMetadataDoc,
                                      NoMetadataDoc, Doc(<<"doc2">>)>>
             /\ ev.relevant_doc_ids = <<<<"doc1">>, <<"doc2">>>> ) =>
               /\ SameNumber(ev.metrics.precision, Quotient(1, 1))
               /\ SameNumber(ev.metrics.recall, Quotient(1, 1))

\* C18: the precision and the recall returned are both between 0.0 and 1.0,
\* whatever the two lists repeat.
C18_MetricRange ==
    Evaluated =>
        \A m \in {ev.metrics.precision, ev.metrics.recall} :
            /\ m.den > 0
            /\ 0 <= m.num
            /\ m.num <= m.den

\* C18's case: a doc id retrieved twice, a relevant id listed twice, and
\* both metrics strictly between 0 and 1
C18_Witness ==
    /\ Evaluated
    /\ \E i, j \in DOMAIN ev.retrieved_ids :
           i # j /\ ev.retrieved_ids[i] = ev.retrieved_ids[j]
                 /\ ev.retrieved_ids[i] \in SetOf(ev.relevant_doc_ids)
    /\ Len(ev.relevant_doc_ids) = 2
    /\ ev.relevant_doc_ids[1] = ev.relevant_doc_ids[2]
    /\ \A m \in {ev.metrics.precision, ev.metrics.recall} :
           0 < m.num /\ m.num < m.den

\* C11: _retrieve calls each ranker once, hands to rerank the query, the two
\* lists weighted by vector_weight and bm25_weight and deduplicated by id,
\* and top_k = 5, and returns the list rerank returned, unchanged: the
\* candidates of the fused list sorted by the score the scorer gave them,
\* cut to 5.
C11_Composition ==
    /\ Handed =>
           /\ heap = ApplyWeight(ApplyWeight(RankerHeap, vector_results, vector_weight),
                                 bm25_results, bm25_weight)
           /\ nodes = CombinedNodes(heap, vector_results, bm25_results)
           /\ top_k = RetrieveTopK
    /\ RetrieveReturned =>
           /\ calls = [vector |-> 1, bm25 |-> 1, rerank |-> 1,
                       predict |-> IF combined_nodes = <<>> THEN 0 ELSE 1]
           /\ combined_nodes = CombinedNodes(heap, vector_results, bm25_results)
           /\ nodes = combined_nodes
           /\ top_k = RetrieveTopK
           /\ combined_nodes # <<>> =>
                  /\ pairs = Pairs(heap, query, combined_nodes)
                  /\ \A i \in DOMAIN combined_nodes :
                         heap[combined_nodes[i]].score = scores[i]
           /\ rerank_out = Returned(Reranked(heap, combined_nodes, RetrieveTopK))
           /\ retrieve_out = rerank_out

\* C11's case: six candidates fused from the two lists, an id of the dense
\* list replaced by the sparse object with that id, five returned, among
\* them one the scorer gave 0, the first of them not the first handed over
C11_Witness ==
    /\ RetrieveReturned
    /\ Len(combined_nodes) = 6
    /\ Len(bm25_results) = 3
    /\ Len(retrieve_out.value) = RetrieveTopK
    /\ retrieve_out.value[1] # combined_nodes[1]
    /\ \E i \in DOMAIN retrieve_out.value : heap[retrieve_out.value[i]].score = Num(0)

\* the second call of _retrieve on the same candidates has ended
SecondCallEnded == other.state = "finished" /\ pc = "done"

\* C12: a second call with the same query, the same ranker lists (the very
\* objects the first call scored) and the same scorer output ends as the
\* first did: the same candidates in the same order with the same scores.
C12_Determinism ==
    SecondCallEnded =>
        /\ retrieve_out = other.locals.retrieve_out
        /\ ScoresOf(heap, retrieve_out.value) = other.result_scores

\* C12's case: the second call has returned two candidates, dense and
\* sparse lists sharing an object, the scorer's order not the input order
C12_Witness ==
    /\ SecondCallEnded
    /\ retrieve_out.status = "returned"
    /\ Len(retrieve_out.value) = 2
    /\ retrieve_out.value # combined_nodes
    /\ \E i \in DOMAIN vector_results, j \in DOMAIN bm25_results :
           vector_results[i] = bm25_results[j]
    /\ calls.predict = 2

\* the objects with the scores the scorer gave the running call
OwnHeap == AssignLoop(heap, combined_nodes, scores)[1]

\* C13: with two calls of _retrieve for two queries interleaved on one
\* retriever, the list rerank hands back to a call is the one the call
\* would get alone: its own fused candidates in the order of the scores the
\* scorer gave for its own query, each carrying that score, none carrying a
\* score written for the other query.
C13_ConcurrentIndependent ==
    (pc = "rerank" /\ rr_pc = "done" /\ rerank_out.status = "returned") =>
        /\ rerank_out.value = Reranked(OwnHeap, combined_nodes, RetrieveTopK)
        /\ \A i \in DOMAIN combined_nodes :
               combined_nodes[i] \in Range(rerank_out.value) =>
                   heap[combined_nodes[i]].score = scores[i]

\* C21: call always ends by returning a ToolOutput. When the engine's query
\* raised an exception with message m, the content is "Error processing
\* query: m", raw_input is {"input": query_str}, raw_output is None and
\* get_response_with_metadata was not called; when query returned, the
\* content is the formatted response and raw_output is the response.
C21_ToolNeverRaises ==
    tool.pc = "done" =>
        /\ tool.out.status = "returned"
        /\ tool.out.value.raw_input = [input |-> tool.query_str]
        /\ tool.query_calls = 1
        /\ tool.engine = "raised" =>
               /\ tool.out.value.content = ErrorContent(tool.error)
               /\ tool.out.value.raw_output = None
               /\ tool.format_calls = 0
        /\ tool.engine = "returned" =>
               /\ tool.out.value.content =
                      GetResponseWithMetadata(tool.response[1].response,
                                              tool.response[1].metadata)
               /\ tool.out.value.raw_output = tool.response

\* rerank is past its assignment loop, by the sort or by an exception of it
PastAssignment ==
    /\ nodes # <<>>
    /\ "predict" \notin faults
    /\ rr_pc \in {"sort", "done"}

\* C22: for a non-empty list, once predict has returned it has been called
\* exactly once, with the pairs (query, text) of the candidates in input
\* order; past the assignment loop every candidate carries the value predict
\* returned for its position (for its last position, if it is listed more
\* than once), whatever score it came with.
C22_OneBatchedCall ==
    /\ (nodes # <<>> /\ rr_pc \in {"assign", "sort", "done"}) =>
           /\ calls.predict = 1
           /\ Len(pairs) = Len(nodes)
           /\ \A i \in DOMAIN nodes : pairs[i] = <<query, heap[nodes[i]].text>>
    /\ PastAssignment =>
           /\ Len(scores) = Len(nodes)
           /\ \A r \in Range(nodes) : heap[r].score = AssignedScore(r)

\* the candidates of s whose sort key is k, in the order they have in s
WithKey(s, k) == SelectSeq(s, LAMBDA r : SortKey(heap, r) = k)
IsPrefix(a, b) == Len(a) <= Len(b) /\ a = SubSeq(b, 1, Len(a))

FusionStarted ==
    \/ heap # RankerHeap
    \/ combined_nodes # <<>>
    \/ calls.rerank > 0
    \/ rr_pc # "idle"

\* both ranker calls have been made and have returned their lists
BothReturned ==
    /\ calls.vector = 1
    /\ calls.bm25 = 1
    /\ faults \cap {"vector", "bm25"} = {}

DenseInFlight == pc = "vector"

\* C25: the sparse ranker call does not wait for the dense one: while the
\* dense call is in flight the sparse call is under way too, so that it can
\* return (or raise) before the dense call has returned.
C25_ConcurrentRankers ==
    DenseInFlight => ENABLED (Bm25Returns \/ Bm25Raises)

\* C26: with the ranker outputs and the scorer fixed, a call of _retrieve
\* under any weights ends as the call under the first weights did: the same
\* candidates in the same order with the same scores.
C26_WeightsDoNotReachResult ==
    (SecondCallEnded /\ other.weights \in Weights \X Weights) =>
        /\ retrieve_out = other.locals.retrieve_out
        /\ ScoresOf(heap, retrieve_out.value) = other.result_scores
        /\ combined_nodes = other.locals.combined_nodes

\* C26's case: the second call ran under other weights than the first, an
\* id came from both rankers, and two candidates were returned in an order
\* that is not the fused one
C26_Witness ==
    /\ SecondCallEnded
    /\ other.weights # <<vector_weight, bm25_weight>>
    /\ retrieve_out.status = "returned"
    /\ Len(retrieve_out.value) = 2
    /\ retrieve_out.value # combined_nodes
    /\ IdsOf(vector_results) \cap IdsOf(bm25_results) # {}

\* the two lists have been fused (and neither the fused list nor the two
\* lists change afterwards)
Fused == pc = "rerank" \/ RetrieveReturned

\* vector_results + bm25_results
CombinedResults == vector_results \o bm25_results

\* where an id occurs first, and last, in the concatenation
FirstOfId(x) ==
    CHOOSE i \in PositionsOfId(CombinedResults, x) :
        \A j \in PositionsOfId(CombinedResults, x) : i <= j
LastOfId(x) ==
    CHOOSE i \in PositionsOfId(CombinedResults, x) :
        \A j \in PositionsOfId(CombinedResults, x) : j <= i

\* C27: the fused list has one candidate per id of the concatenation
\* dense-then-sparse, the ids in the order of their first occurrence and
\* each id's candidate the last one of that id; and two returned candidates
\* with the same sort key are in the order of the fused list.
C27_FusedOrder ==
    Fused =>
        /\ IdsOf(combined_nodes) = IdsOf(CombinedResults)
        /\ \A i, j \in DOMAIN combined_nodes :
               i < j => FirstOfId(heap[combined_nodes[i]].node_id)
                            < FirstOfId(heap[combined_nodes[j]].node_id)
        /\ \A i \in DOMAIN combined_nodes :
               combined_nodes[i] = CombinedResults[LastOfId(heap[combined_nodes[i]].node_id)]
        /\ RetrieveReturned =>
               \A i, j \in DOMAIN retrieve_out.value :
                   (i < j /\ SortKey(heap, retrieve_out.value[i])
                                = SortKey(heap, retrieve_out.value[j])) =>
                       \E m, n \in DOMAIN combined_nodes :
                           /\ m < n
                           /\ combined_nodes[m] = retrieve_out.value[i]
                           /\ combined_nodes[n] = retrieve_out.value[j]

\* C27's case: the dense ranker returned an id first and another id second,
\* the sparse ranker returned another candidate of the first id: that
\* candidate is first in the fused list, and the two came back with equal
\* scores in the fused order
C27_Witness ==
    /\ RetrieveReturned
    /\ Len(vector_results) = 2
    /\ Len(bm25_results) = 1
    /\ heap[vector_results[1]].node_id # heap[vector_results[2]].node_id
    /\ heap[bm25_results[1]].node_id = heap[vector_results[1]].node_id
    /\ bm25_results[1] # vector_results[1]
    /\ combined_nodes = <<bm25_results[1], vector_results[2]>>
    /\ scores[1] = scores[2]
    /\ retrieve_out.value = combined_nodes

\* how often x occurs in the list s
Count(s, x) == Cardinality(Positions(s, x))

\* C28: no step of rerank changes the list it was given, and the list it
\* returns holds only candidates of that list, none more often than the
\* given list holds it.
C28_InputListIntact ==
    [][rr_pc # "idle" =>
          /\ nodes' = nodes
          /\ (rr_pc' = "done" /\ rerank_out'.status = "returned") =>
                 \A r \in Refs : Count(rerank_out'.value, r) <= Count(nodes', r)]_vars

\* C28's case: rerank returned two of three candidates, the last of the
\* given list first, and the given list is still as long as it was
C28_Witness ==
    /\ RerankReturned
    /\ Len(nodes) = 3
    /\ Len(rerank_out.value) = 2
    /\ rerank_out.value[1] = nodes[3]
    /\ nodes[3] # nodes[1]
    /\ nodes[3] # nodes[2]

\* the objects as they are when _retrieve calls rerank: the rankers' objects
\* after the two weighting loops
WeightedHeap ==
    ApplyWeight(ApplyWeight(RankerHeap, vector_results, vector_weight),
                bm25_results, bm25_weight)

\* C29: once predict has raised, every candidate carries the score it had
\* when rerank was called, the weighted one, and stays so to the end of
\* _retrieve; no other field of a candidate has changed either.
C29_ScoresKeptOnScorerFailure ==
    "predict" \in faults => heap = WeightedHeap

\* C29's case: predict raised on two fused candidates, the first of which
\* carries a weighted score that is not the one its ranker gave it, and the
\* failure has left _retrieve
C29_Witness ==
    /\ "predict" \in faults
    /\ pc = "done"
    /\ Len(nodes) = 2
    /\ rankerScore[nodes[1]] # None
    /\ heap[nodes[1]].score # rankerScore[nodes[1]]
    /\ heap[nodes[1]].score # Num(0)

\* b multiplied n times
RECURSIVE Pow(_, _)
Pow(b, n) == IF n = 0 THEN 1 ELSE b * Pow(b, n - 1)

\* the score an object has after the two loops: the ranker's score times
\* its list's weight for each of its occurrences, 0.0 for a null score met
\* by a loop, the ranker's score for an object in neither list
OccurrenceScore(r) ==
    LET nv == Count(vector_results, r)
        nb == Count(bm25_results, r)
    IN  IF nv + nb = 0 THEN rankerScore[r]
        ELSE IF rankerScore[r] = None THEN Num(0)
        ELSE Num(rankerScore[r][1] * Pow(vector_weight, nv) * Pow(bm25_weight, nb))

\* C30: when rerank is called, every object, in the fused list or dropped
\* by the deduplication, has been weighted once per occurrence in each
\* list; an object with score s that occurs once in both lists carries
\* s * vector_weight * bm25_weight.
C30_WeightedPerOccurrence ==
    Handed =>
        /\ \A r \in DOMAIN heap : heap[r].score = OccurrenceScore(r)
        /\ \A r \in Range(vector_results) \cap Range(bm25_results) :
               (/\ Count(vector_results, r) = 1
                /\ Count(bm25_results, r) = 1
                /\ rankerScore[r] # None) =>
                   heap[r].score = Num(rankerScore[r][1] * vector_weight * bm25_weight)

\* C30's case: one object with a score is in both lists once, under weights
\* that are not 0, next to an object the deduplication dropped, weighted too
C30_Witness ==
    /\ Handed
    /\ vector_weight # 0
    /\ bm25_weight # 0
    /\ \E r \in Range(vector_results) \cap Range(bm25_results) :
           /\ Count(vector_results, r) = 1
           /\ Count(bm25_results, r) = 1
           /\ rankerScore[r] # None
           /\ rankerScore[r] # Num(0)
           /\ heap[r].score # Num(rankerScore[r][1] * bm25_weight)
    /\ \E d \in Range(vector_results) \ Range(nodes) :
           /\ rankerScore[d] # None
           /\ heap[d].score # rankerScore[d]

====
